---------------------------- MODULE Spec2Model ----------------------------
(***************************************************************************)
(* Model of the domain_check repository: the three scan scripts            *)
(* (dns_check.py, domain_finder.py, rdap_streamlit.py) and the lookup      *)
(* functions they call (is_domain_available, check_domain_whois, and the   *)
(* two copies of check_domain_rdap).                                       *)
(*                                                                         *)
(* A Python str is a sequence of one-character strings, so that strip,     *)
(* split, lower, "in" and concatenation are computed rather than assumed.  *)
(***************************************************************************)
EXTENDS Integers, Sequences, FiniteSets, TLC

(***************************************************************************)
(* Bounds of the model.                                                    *)
(***************************************************************************)
\* The scans enumerate the first NumChars letters of string.ascii_lowercase.
NumChars == 2
\* The largest domain_length the sidebar inputs are given.
MaxLen == 2
\* At most this many lookups of one scan of domain_finder.py or
\* rdap_streamlit.py answer anything but "registered".
MaxIrregular == 2
\* The same for dns_check.py, which looks every label up under six TLDs.
MaxDnsIrregular == 1
\* The longest domain string handed to check_domain_rdap on its own.
MaxDomLen == 4

(***************************************************************************)
(* Program constants.                                                      *)
(***************************************************************************)
DnsMinLen == 1
DnsEndLen == 3
WhoisMinLen == 1
WhoisMaxLen == 10
RdapMinLen == 1
RdapMaxLen == 3
RequestTimeout == 10

Min(a, b) == IF a < b THEN a ELSE b

(***************************************************************************)
(* Strings.                                                                *)
(***************************************************************************)
ascii_lowercase ==
    << "a", "b", "c", "d", "e", "f", "g", "h", "i", "j", "k", "l", "m",
       "n", "o", "p", "q", "r", "s", "t", "u", "v", "w", "x", "y", "z" >>

ascii_uppercase ==
    << "A", "B", "C", "D", "E", "F", "G", "H", "I", "J", "K", "L", "M",
       "N", "O", "P", "Q", "R", "S", "T", "U", "V", "W", "X", "Y", "Z" >>

Whitespace == {" ", "\t", "\n"}

\* str.lower() on one character.
LowerChar(c) ==
    IF \E k \in 1..26 : ascii_uppercase[k] = c
      THEN ascii_lowercase[CHOOSE k \in 1..26 : ascii_uppercase[k] = c]
      ELSE c

\* str.lower()
Lower(s) == [k \in 1..Len(s) |-> LowerChar(s[k])]

\* str.strip(): leading and trailing whitespace removed.
Strip(s) ==
    LET keep == {k \in 1..Len(s) : s[k] \notin Whitespace}
    IN  IF keep = {} THEN << >>
        ELSE LET lo == CHOOSE k \in keep : \A j \in keep : k <= j
                 hi == CHOOSE k \in keep : \A j \in keep : k >= j
             IN  SubSeq(s, lo, hi)

\* str.split("."): the parts between the dots, empty parts kept.
RECURSIVE SplitDot(_)
SplitDot(s) ==
    LET dots == {k \in 1..Len(s) : s[k] = "."}
    IN  IF dots = {} THEN << s >>
        ELSE LET d == CHOOSE k \in dots : \A j \in dots : k <= j
             IN  << SubSeq(s, 1, d - 1) >> \o SplitDot(SubSeq(s, d + 1, Len(s)))

\* sub in s
Contains(sub, s) ==
    \E k \in 1..(Len(s) - Len(sub) + 1) : SubSeq(s, k, k + Len(sub) - 1) = sub

\* All strings over the characters cs of length at most n.
RECURSIVE StringsUpTo(_, _)
StringsUpTo(cs, n) ==
    IF n = 0 THEN { << >> }
    ELSE LET shorter == StringsUpTo(cs, n - 1)
         IN  shorter \cup {Append(s, c) : s \in {t \in shorter : Len(t) = n - 1}, c \in cs}

(***************************************************************************)
(* Verdicts.  Every lookup function returns a bool; the scripts read True  *)
(* as "available" and False as "taken".                                    *)
(***************************************************************************)
VerdictOf(is_avail) == IF is_avail THEN "Available" ELSE "Taken"

(***************************************************************************)
(* RDAP lookup: the two copies of check_domain_rdap.                       *)
(***************************************************************************)
RDAP_SERVERS ==
    { << "i", "o" >>, << "a", "i" >>, << "a", "p", "p" >>,
      << "x", "y", "z" >>, << "d", "e", "v" >> }

\* What the single requests.get can do: answer with a status code, raise a
\* RequestException (timeout, connection error), or raise something that is
\* no RequestException, which the except clause does not catch.
RdapStatuses == {200, 404, 403, 429, 503}
RdapOutcomes ==
    [kind : {"status"}, code : RdapStatuses]
      \cup [kind : {"Timeout", "ConnectionError", "OtherFault"}, code : {0}]

IsRequestException(up) == up.kind \in {"Timeout", "ConnectionError"}

\* One GET of base_url + domain, with its timeout.
RdapRequest(tld, domain) == [server |-> tld, name |-> domain, timeout |-> RequestTimeout]

\* The result of a call: the value returned (when nothing is raised), what
\* is raised ("none" for a normal return) and the requests sent.
Returned(b, reqs) == [ret |-> b, raised |-> "none", requests |-> reqs]
Raised(e, reqs) == [ret |-> FALSE, raised |-> e, requests |-> reqs]

\* The try block both copies share (rdap_checker.py 52-69, rdap_streamlit.py 39-52).
RdapTry(tld, domain, up) ==
    LET reqs == << RdapRequest(tld, domain) >>
    IN  IF up.kind = "status"
          THEN IF up.code = 404 THEN Returned(TRUE, reqs)
               ELSE IF up.code = 200 THEN Returned(FALSE, reqs)
               ELSE Returned(FALSE, reqs)
        ELSE IF IsRequestException(up) THEN Returned(FALSE, reqs)
        ELSE Raised(up.kind, reqs)

\* rdap_checker.py
check_domain_rdap_checker(domain, up) ==
    LET parts == SplitDot(Strip(domain))
        tld == Lower(parts[Len(parts)])
    IN  IF Len(parts) < 2 THEN Raised("ValueError", << >>)
        ELSE IF tld \notin RDAP_SERVERS THEN Returned(FALSE, << >>)
        ELSE RdapTry(tld, domain, up)

\* A copy that forgets .lower() on the TLD.
check_domain_rdap_no_lower(domain, up) ==
    LET parts == SplitDot(Strip(domain))
        tld == parts[Len(parts)]
    IN  IF Len(parts) < 2 THEN Returned(FALSE, << >>)
        ELSE IF tld \notin RDAP_SERVERS THEN Returned(FALSE, << >>)
        ELSE RdapTry(tld, domain, up)

\* rdap_streamlit.py
check_domain_rdap_streamlit(domain, up) ==
    LET parts == SplitDot(Strip(domain))
        tld == Lower(parts[Len(parts)])
    IN  IF Len(parts) < 2 THEN Returned(FALSE, << >>)
        ELSE IF tld \notin RDAP_SERVERS THEN Returned(FALSE, << >>)
        ELSE RdapTry(tld, domain, up)

(***************************************************************************)
(* DNS lookup: is_domain_available.                                        *)
(***************************************************************************)
\* dns.resolver.resolve answers, raises a DNSException (NXDOMAIN, NoAnswer,
\* Timeout, NoNameservers) or raises something else.
DnsOutcomes ==
    [kind : {"Answer", "NXDOMAIN", "NoAnswer", "Timeout", "NoNameservers", "OtherFault"},
     code : {0}]
IsDNSException(up) == up.kind \in {"NXDOMAIN", "NoAnswer", "Timeout", "NoNameservers"}

is_domain_available(domain, up) ==
    LET reqs == << [name |-> domain, rdtype |-> "A"] >>
    IN  IF up.kind = "Answer" THEN Returned(FALSE, reqs)
        ELSE IF IsDNSException(up) THEN Returned(TRUE, reqs)
        ELSE Raised(up.kind, reqs)

(***************************************************************************)
(* WHOIS lookup: check_domain_whois.                                       *)
(***************************************************************************)
\* Python's None, where a str is expected.
None == << "<None>" >>

Marker_no_match == << "n", "o", " ", "m", "a", "t", "c", "h" >>
Marker_not_found == << "n", "o", "t", " ", "f", "o", "u", "n", "d" >>
Marker_no_data_found ==
    << "n", "o", " ", "d", "a", "t", "a", " ", "f", "o", "u", "n", "d" >>

\* Response bodies registries send.
Text_NoMatch == << "N", "o", " ", "m", "a", "t", "c", "h", " ", "f", "o", "r" >>
Text_NOT_FOUND == << "N", "O", "T", " ", "F", "O", "U", "N", "D" >>
Text_NoDataFound ==
    << "%", " ", "N", "o", " ", "D", "a", "t", "a", " ", "F", "o", "u", "n", "d" >>
Text_Registered == << "D", "o", "m", "a", "i", "n", ":", " ", "A", "B" >>
Text_NotFond == << "n", "o", "t", " ", "f", "o", "n", "d" >>
WhoisTexts ==
    { None, << >>, Text_NoMatch, Text_NOT_FOUND, Text_NoDataFound,
      Text_Registered, Text_NotFond }

\* whois.whois returns an entry (text, domain_name) or raises.
WhoisOutcomes ==
    [kind : {"entry"}, text : WhoisTexts, domain_name : {None, << "A", "B" >>}]
      \cup [kind : {"PywhoisError", "Timeout", "OtherFault"},
            text : {None}, domain_name : {None}]

\* (w.text or "").lower()
RawText(t) == IF t = None THEN << >> ELSE Lower(t)

\* not w.domain_name
Falsy(v) == v = None \/ v = << >>

check_domain_whois(domain, up) ==
    LET reqs == << [name |-> domain] >>
    IN  IF up.kind # "entry" THEN Returned(FALSE, reqs)
        ELSE LET raw_text == RawText(up.text)
             IN  IF \/ Contains(Marker_no_match, raw_text)
                    \/ Contains(Marker_not_found, raw_text)
                    \/ Contains(Marker_no_data_found, raw_text)
                   THEN Returned(TRUE, reqs)
                 ELSE IF Falsy(up.domain_name) THEN Returned(TRUE, reqs)
                 ELSE Returned(FALSE, reqs)

(***************************************************************************)
(* Candidate generation.                                                   *)
(***************************************************************************)
\* itertools.product(pool, repeat=r) as a list, each tuple joined by
\* "".join: result = [x + [y] for x in result for y in pool], r times.
\* The same with the loops the other way round:
\* [x + [y] for y in pool for x in result].
RECURSIVE ProductPoolOutside(_, _)
ProductPoolOutside(pool, r) ==
    IF r = 0 THEN << << >> >>
    ELSE LET result == ProductPoolOutside(pool, r - 1)
             m == Len(result)
         IN  [k \in 1..(m * Len(pool)) |->
                Append(result[((k - 1) % m) + 1], pool[((k - 1) \div m) + 1])]

RECURSIVE Product(_, _)
Product(pool, r) ==
    IF r = 0 THEN << << >> >>
    ELSE LET result == Product(pool, r - 1)
             m == Len(pool)
         IN  [k \in 1..(Len(result) * m) |->
                Append(result[((k - 1) \div m) + 1], pool[((k - 1) % m) + 1])]

\* f"{d}.{t}"
FullDomain(d, t) == d \o << "." >> \o t

\* "[d](https://d)", the link domain_finder.py renders for a domain.
Link(d) ==
    << "[" >> \o d \o << "]", "(", "h", "t", "t", "p", "s", ":", "/", "/" >>
      \o d \o << ")" >>

\* dns_check.py: domain_names, the labels of DnsMinLen..DnsEndLen-1 letters.
RECURSIVE LabelsOfLengths(_, _, _)
LabelsOfLengths(pool, lo, end) ==
    IF lo >= end THEN << >>
    ELSE Product(pool, lo) \o LabelsOfLengths(pool, lo + 1, end)

\* dns_check.py: the TLDs the script pairs every label with.
DnsTlds ==
    << << "i", "o" >>, << "c", "o", "m" >>, << "a", "i" >>,
       << "d", "e" >>, << "m", "e" >>, << "a", "p", "p" >> >>

\* domain_finder.py: what the TLD text box may hold (its default is "com").
WhoisTldInputs == { << "c", "o", "m" >>, << "i", "o" >>, << >> }

\* An iteration that walks the list from its end.
EnumerateReversed(seq, i) == seq[Len(seq) - i]

\* for i, x in enumerate(seq): the element of iteration i (from 0).
Enumerate(seq, i) == seq[i + 1]

\* A filter that keeps the other rows.
SelectUnavailable(rows) == SelectSeq(rows, LAMBDA r : r.Available = FALSE)

\* df[df["Available"] == True]
SelectAvailable(rows) == SelectSeq(rows, LAMBDA r : r.Available = TRUE)

(***************************************************************************)
(* State.                                                                  *)
(***************************************************************************)
VARIABLES
    app,                \* which script runs: "dns", "whois", "rdap", or "call"
    chars,              \* the alphabet
    tlds,               \* the TLDs of the scan
    domain_length,      \* the sidebar's number of characters (0: dns_check.py)
    pc,                 \* "start", "loop", "done", "crashed"
    possible_domains,   \* the generated list (domain_names in dns_check.py)
    i,                  \* candidates the loop has finished
    results,            \* domain_finder.py: the rows appended so far
    df_available,       \* domain_finder.py: the table shown
    results_available,  \* rdap_streamlit.py: the list shown
    printed,            \* dns_check.py: the domains printed
    calls,              \* every returned lookup: (Domain, Available)
    sent,               \* every network request issued
    last,               \* the latest lookup: domain, upstream outcome, result
    irregular,          \* lookups so far that answered anything but "registered"
    rq_domain,          \* a direct call of check_domain_rdap: its argument
    rq_up,              \* ... and what the registry does
    res_checker,        \* ... the result of the rdap_checker.py copy
    res_streamlit       \* ... the result of the rdap_streamlit.py copy

scanVars ==
    << app, chars, tlds, domain_length, pc, possible_domains, i, results,
       df_available, results_available, printed, calls, sent, last, irregular >>
callVars == << rq_domain, rq_up, res_checker, res_streamlit >>
vars ==
    << app, chars, tlds, domain_length, pc, possible_domains, i, results,
       df_available, results_available, printed, calls, sent, last, irregular,
       rq_domain, rq_up, res_checker, res_streamlit >>

NoLookup == [domain |-> << >>, up |-> [kind |-> "none", code |-> 0], res |-> Raised("none", << >>)]
NoResult == Raised("not called", << >>)

\* The alphabets the model runs the scans with.
Alphabets == {SubSeq(ascii_lowercase, 1, n) : n \in 1..NumChars}

NoCall ==
    /\ rq_domain = << >>
    /\ rq_up = [kind |-> "status", code |-> 200]
    /\ res_checker = NoResult
    /\ res_streamlit = NoResult

ScanStart ==
    /\ pc = "start"
    /\ possible_domains = << >>
    /\ i = 0
    /\ results = << >>
    /\ df_available = << >>
    /\ results_available = << >>
    /\ printed = << >>
    /\ calls = << >>
    /\ sent = << >>
    /\ last = NoLookup
    /\ irregular = 0

Init ==
    /\ chars \in Alphabets
    /\ \/ /\ app = "dns"
          /\ tlds = DnsTlds
          /\ domain_length = 0
       \/ /\ app = "whois"
          /\ tlds \in {<< t >> : t \in WhoisTldInputs}
          /\ domain_length \in WhoisMinLen..Min(WhoisMaxLen, MaxLen)
       \/ /\ app = "rdap"
          /\ tlds \in {<< t >> : t \in RDAP_SERVERS}
          /\ domain_length \in RdapMinLen..Min(RdapMaxLen, MaxLen)
    /\ ScanStart
    /\ NoCall

(***************************************************************************)
(* The scans.                                                              *)
(***************************************************************************)
\* The number of candidates of the scan, and candidate k (from 0) in the
\* order of the loops.
ScanTotal ==
    IF app = "dns" THEN Len(possible_domains) * Len(tlds)
    ELSE Len(possible_domains)

ScanDomain(k) ==
    IF app = "dns"
      THEN FullDomain(possible_domains[(k \div Len(tlds)) + 1],
                      tlds[(k % Len(tlds)) + 1])
    ELSE IF app = "whois" THEN FullDomain(Enumerate(possible_domains, k), tlds[1])
    ELSE Enumerate(possible_domains, k)

\* The registry answers; all but a bounded number of answers are "registered".
Allowed(up, regular, budget) ==
    /\ up # regular => irregular < budget
    /\ irregular' = IF up = regular THEN irregular ELSE irregular + 1

\* What every loop body does with the result of its lookup.
Record(dom, up, res) ==
    /\ last' = [domain |-> dom, up |-> up, res |-> res]
    /\ sent' = sent \o res.requests
    /\ IF res.raised = "none"
         THEN /\ calls' = Append(calls, [Domain |-> dom, Available |-> res.ret])
              /\ i' = i + 1
              /\ pc' = pc
         ELSE /\ calls' = calls
              /\ i' = i
              /\ pc' = "crashed"

DnsRegistered == [kind |-> "Answer", code |-> 0]

DnsGenerate ==
    /\ app = "dns" /\ pc = "start"
    /\ possible_domains' = LabelsOfLengths(chars, DnsMinLen, DnsEndLen)
    /\ pc' = "loop"
    /\ UNCHANGED << app, chars, tlds, domain_length, i, results, df_available,
                    results_available, printed, calls, sent, last, irregular,
                    callVars >>

DnsCheck ==
    /\ app = "dns" /\ pc = "loop" /\ i < ScanTotal
    /\ \E up \in DnsOutcomes :
         LET full_domain == ScanDomain(i)
             res == is_domain_available(full_domain, up)
         IN  /\ Allowed(up, DnsRegistered, MaxDnsIrregular)
             /\ Record(full_domain, up, res)
             /\ printed' = IF res.raised = "none" /\ res.ret
                             THEN Append(printed, full_domain) ELSE printed
    /\ UNCHANGED << app, chars, tlds, domain_length, possible_domains, results,
                    df_available, results_available, callVars >>

DnsFinish ==
    /\ app = "dns" /\ pc = "loop" /\ i = ScanTotal
    /\ pc' = "done"
    /\ UNCHANGED << app, chars, tlds, domain_length, possible_domains, i, results,
                    df_available, results_available, printed, calls, sent, last,
                    irregular, callVars >>

WhoisRegistered ==
    [kind |-> "entry", text |-> Text_Registered, domain_name |-> << "A", "B" >>]

WhoisGenerate ==
    /\ app = "whois" /\ pc = "start"
    /\ possible_domains' = Product(chars, domain_length)
    /\ pc' = "loop"
    /\ UNCHANGED << app, chars, tlds, domain_length, i, results, df_available,
                    results_available, printed, calls, sent, last, irregular,
                    callVars >>

WhoisCheck ==
    /\ app = "whois" /\ pc = "loop" /\ i < ScanTotal
    /\ \E up \in WhoisOutcomes :
         LET full_domain == ScanDomain(i)
             res == check_domain_whois(full_domain, up)
         IN  /\ Allowed(up, WhoisRegistered, MaxIrregular)
             /\ Record(full_domain, up, res)
             /\ results' = IF res.raised = "none"
                             THEN Append(results, [Domain |-> full_domain,
                                                   Available |-> res.ret])
                             ELSE results
    /\ UNCHANGED << app, chars, tlds, domain_length, possible_domains,
                    df_available, results_available, printed, callVars >>

WhoisFinish ==
    /\ app = "whois" /\ pc = "loop" /\ i = ScanTotal
    /\ df_available' =
         LET rows == SelectAvailable(results)
         IN  [k \in 1..Len(rows) |->
                [Domain |-> Link(rows[k].Domain), Status |-> "Verified"]]
    /\ pc' = "done"
    /\ UNCHANGED << app, chars, tlds, domain_length, possible_domains, i, results,
                    results_available, printed, calls, sent, last, irregular,
                    callVars >>

RdapRegistered == [kind |-> "status", code |-> 200]

RdapGenerate ==
    /\ app = "rdap" /\ pc = "start"
    /\ possible_domains' =
         LET combos == Product(chars, domain_length)
         IN  [k \in 1..Len(combos) |-> FullDomain(combos[k], tlds[1])]
    /\ pc' = "loop"
    /\ UNCHANGED << app, chars, tlds, domain_length, i, results, df_available,
                    results_available, printed, calls, sent, last, irregular,
                    callVars >>

RdapCheck ==
    /\ app = "rdap" /\ pc = "loop" /\ i < ScanTotal
    /\ \E up \in RdapOutcomes :
         LET dom == ScanDomain(i)
             res == check_domain_rdap_streamlit(dom, up)
         IN  /\ Allowed(up, RdapRegistered, MaxIrregular)
             /\ Record(dom, up, res)
             /\ results_available' = IF res.raised = "none" /\ res.ret
                                       THEN Append(results_available, dom)
                                       ELSE results_available
    /\ UNCHANGED << app, chars, tlds, domain_length, possible_domains, results,
                    df_available, printed, callVars >>

RdapFinish ==
    /\ app = "rdap" /\ pc = "loop" /\ i = ScanTotal
    /\ pc' = "done"
    /\ UNCHANGED << app, chars, tlds, domain_length, possible_domains, i, results,
                    df_available, results_available, printed, calls, sent, last,
                    irregular, callVars >>

Next ==
    \/ DnsGenerate \/ DnsCheck \/ DnsFinish
    \/ WhoisGenerate \/ WhoisCheck \/ WhoisFinish
    \/ RdapGenerate \/ RdapCheck \/ RdapFinish

Spec == Init /\ [][Next]_vars

(***************************************************************************)
(* Direct calls of check_domain_rdap, one argument and one registry        *)
(* behaviour handed to both copies.                                        *)
(***************************************************************************)
DomainChars == {"a", "i", "o", "I", ".", " "}

InitCall ==
    /\ app = "call"
    /\ chars = << >>
    /\ tlds = << >>
    /\ domain_length = 0
    /\ ScanStart
    /\ rq_domain \in StringsUpTo(DomainChars, MaxDomLen)
    /\ rq_up \in RdapOutcomes
    /\ res_checker = NoResult
    /\ res_streamlit = NoResult

CallChecker ==
    /\ app = "call" /\ res_checker = NoResult
    /\ res_checker' = check_domain_rdap_checker(rq_domain, rq_up)
    /\ UNCHANGED << scanVars, rq_domain, rq_up, res_streamlit >>

CallStreamlit ==
    /\ app = "call" /\ res_streamlit = NoResult
    /\ res_streamlit' = check_domain_rdap_streamlit(rq_domain, rq_up)
    /\ UNCHANGED << scanVars, rq_domain, rq_up, res_checker >>

NextCall == CallChecker \/ CallStreamlit

SpecCall == InitCall /\ [][NextCall]_vars

(***************************************************************************)
(* Properties of check_domain_rdap, checked under SpecCall.                *)
(***************************************************************************)
\* The results of the copies that have been called.
CallResults == {r \in {res_checker, res_streamlit} : r # NoResult}

HasDot(domain) == \E k \in 1..Len(domain) : domain[k] = "."

\* The TLD of a domain: its last dot-separated part, lower-cased.
TldOf(domain) ==
    LET parts == SplitDot(Strip(domain)) IN Lower(parts[Len(parts)])

TldConfigured(domain) == HasDot(Strip(domain)) /\ TldOf(domain) \in RDAP_SERVERS

\* A label and a TLD, both non-empty, with one dot between and no whitespace.
WellFormed(domain) ==
    LET parts == SplitDot(domain)
    IN  /\ Len(parts) = 2 /\ parts[1] # << >> /\ parts[2] # << >>
        /\ \A k \in 1..Len(domain) : domain[k] \notin Whitespace

\* The verdict the specification gives an RDAP outcome.
RdapVerdict(up) ==
    IF up.kind = "status" /\ up.code = 404 THEN "Available"
    ELSE IF up.kind = "status" /\ up.code = 200 THEN "Taken"
    ELSE "Unknown"

\* C1: for a domain whose TLD is configured and every outcome of the single
\* GET, check_domain_rdap gives 404 -> Available, 200 -> Taken, and any other
\* status or a transport failure -> Unknown, distinct from both.  Stated for
\* the well-formed domains.
C1_RdapClassification ==
    \A r \in CallResults :
        (WellFormed(rq_domain) /\ TldConfigured(rq_domain)
           /\ (rq_up.kind = "status" \/ IsRequestException(rq_up)))
            => /\ r.raised = "none"
               /\ VerdictOf(r.ret) = RdapVerdict(rq_up)

\* C4: for a domain whose TLD is not a key of RDAP_SERVERS, check_domain_rdap
\* gives the verdict Unknown (never Available, never Taken) and raises nothing.
\* Stated for the well-formed domains.
C4_UnconfiguredTldUnknown ==
    \A r \in CallResults :
        (WellFormed(rq_domain) /\ TldOf(rq_domain) \notin RDAP_SERVERS)
            => /\ r.raised = "none"
               /\ VerdictOf(r.ret) = "Unknown"

\* C10: on a domain holding a dot the two copies of check_domain_rdap return
\* the same boolean and send the same requests, none when the TLD is not
\* configured and exactly one otherwise; on a domain with no dot the
\* rdap_checker.py copy raises ValueError and the rdap_streamlit.py copy
\* returns False, neither sending a request.
C10_CopiesEquivalent ==
    (res_checker # NoResult /\ res_streamlit # NoResult) =>
        IF HasDot(Strip(rq_domain))
          THEN /\ res_checker.ret = res_streamlit.ret
               /\ res_checker.raised = res_streamlit.raised
               /\ res_checker.requests = res_streamlit.requests
               /\ (rq_up.kind = "status" \/ IsRequestException(rq_up))
                     => res_checker.raised = "none"
               /\ Len(res_checker.requests) =
                     IF TldOf(rq_domain) \in RDAP_SERVERS THEN 1 ELSE 0
          ELSE /\ res_checker.raised = "ValueError"
               /\ res_streamlit.raised = "none" /\ res_streamlit.ret = FALSE
               /\ res_checker.requests = << >>
               /\ res_streamlit.requests = << >>

\* Both copies were handed a domain with an upper-case letter in a configured
\* TLD and a 404 answer, and both sent the one request and returned True.
C10_Witness ==
    /\ res_checker # NoResult /\ res_streamlit # NoResult
    /\ \E k \in 1..Len(rq_domain) : rq_domain[k] = "I"
    /\ rq_up = [kind |-> "status", code |-> 404]
    /\ res_checker.ret /\ res_streamlit.ret
    /\ Len(res_checker.requests) = 1 /\ Len(res_streamlit.requests) = 1

(***************************************************************************)
(* Properties of the lookups as the scans make them, checked under Spec.   *)
(***************************************************************************)
Looked == last # NoLookup

\* C2: is_domain_available gives Taken for a successful resolution, Available
\* for NXDOMAIN, and Unknown for any other resolution failure; a failure that
\* is not NXDOMAIN is never reported as Available.
C2_DnsClassification ==
    (app = "dns" /\ Looked /\ last.up.kind # "OtherFault") =>
        /\ last.res.raised = "none"
        /\ VerdictOf(last.res.ret) =
             IF last.up.kind = "Answer" THEN "Taken"
             ELSE IF last.up.kind = "NXDOMAIN" THEN "Available"
             ELSE "Unknown"

HasMarker(text) ==
    LET t == IF text = None THEN << >> ELSE Lower(text)
    IN  \/ Contains(Marker_no_match, t)
        \/ Contains(Marker_not_found, t)
        \/ Contains(Marker_no_data_found, t)

\* C3: check_domain_whois gives Available for a response whose lower-cased
\* text holds one of the markers, Available for a response with no
\* domain_name, Taken for a response with a domain_name and no marker, and
\* Unknown (never Taken) for any error the query raises.  Stated for the
\* scans whose TLD is not empty.
C3_WhoisClassification ==
    (app = "whois" /\ Looked /\ tlds[1] # << >>) =>
        /\ last.res.raised = "none"
        /\ VerdictOf(last.res.ret) =
             IF last.up.kind # "entry" THEN "Unknown"
             ELSE IF HasMarker(last.up.text) THEN "Available"
             ELSE IF last.up.domain_name = None THEN "Available"
             ELSE "Taken"

LookupFailed(up) ==
    up.kind \in {"Timeout", "ConnectionError", "NoNameservers", "NoAnswer",
                 "PywhoisError", "OtherFault"}

(***************************************************************************)
(* Properties of the scans, checked under Spec.                            *)
(***************************************************************************)
\* The candidates in generation order, from the generated list and the TLDs.
ExpectedTotal ==
    IF app = "dns" THEN Len(possible_domains) * Len(tlds) ELSE Len(possible_domains)

ExpectedCandidate(k) ==
    IF app = "dns"
      THEN possible_domains[((k - 1) \div Len(tlds)) + 1] \o << "." >>
             \o tlds[((k - 1) % Len(tlds)) + 1]
    ELSE IF app = "whois" THEN possible_domains[k] \o << "." >> \o tlds[1]
    ELSE possible_domains[k]

\* C5: no fault of a single lookup leaves the scan: the failing candidate is
\* recorded as Unknown, the later candidates are still looked up, and the scan
\* ends with one verdict per candidate.
C5_FaultsStayInside ==
    /\ pc # "crashed"
    /\ (Looked /\ LookupFailed(last.up)) =>
          /\ last.res.raised = "none"
          /\ VerdictOf(last.res.ret) = "Unknown"
    /\ pc = "done" => Len(calls) = ExpectedTotal

\* C6: the candidates looked up so far, and the rows recorded for them, are a
\* prefix of the generation sequence, none skipped, reordered or repeated,
\* and a scan that completes has given every candidate one verdict.
C6_GenerationOrder ==
    /\ Len(calls) = i
    /\ Len(calls) <= ExpectedTotal
    /\ \A k \in 1..Len(calls) : calls[k].Domain = ExpectedCandidate(k)
    /\ Len(sent) \in {Len(calls), Len(calls) + 1}
    /\ Len(sent) <= ExpectedTotal
    /\ \A k \in 1..Len(sent) : sent[k].name = ExpectedCandidate(k)
    /\ app = "whois" => results = calls
    /\ pc = "done" => Len(calls) = ExpectedTotal

\* A completed WHOIS scan of four candidates.
C6_Witness ==
    /\ app = "whois" /\ pc = "done"
    /\ Len(calls) = 4
    /\ \E k \in 1..4 : calls[k].Available

RECURSIVE Pow(_, _)
Pow(n, e) == IF e = 0 THEN 1 ELSE n * Pow(n, e - 1)

RECURSIVE SumPow(_, _, _)
SumPow(n, lo, hi) == IF lo > hi THEN 0 ELSE Pow(n, lo) + SumPow(n, lo + 1, hi)

\* The lengths the scan is configured with.
LengthRange ==
    IF app = "dns" THEN DnsMinLen..(DnsEndLen - 1) ELSE {domain_length}

\* The position of a letter in the alphabet.
Rank(c) == CHOOSE k \in 1..26 : ascii_lowercase[k] = c

\* x comes before y in lexicographic order (x and y of one length).
LexLess(x, y) ==
    \E k \in 1..Len(x) :
        /\ \A j \in 1..(k - 1) : x[j] = y[j]
        /\ Rank(x[k]) < Rank(y[k])

\* The label of entry k of the generated list.
LabelAt(k) ==
    IF app = "rdap"
      THEN SubSeq(possible_domains[k], 1, Len(possible_domains[k]) - Len(tlds[1]) - 1)
    ELSE possible_domains[k]

JustGenerated == pc = "loop" /\ i = 0 /\ sent = << >>

\* C7: generation yields, for each length L of the range, exactly n^L labels
\* of length L over the alphabet, pairwise distinct and in lexicographic
\* order, each paired with every TLD, so that there are
\* (sum of n^L over the range) x |T| candidates and none occurs twice.
\* Stated of the list as generated, which no later step of a scan changes.
C7_Generation ==
    JustGenerated =>
        LET n == Len(chars)
            N == Len(possible_domains)
            total == ExpectedTotal
        IN  /\ \A k \in 1..N :
                 /\ Len(LabelAt(k)) \in LengthRange
                 /\ \A j \in 1..Len(LabelAt(k)) :
                        \E c \in 1..n : chars[c] = LabelAt(k)[j]
            /\ \A L \in LengthRange :
                 LET at == {k \in 1..N : Len(LabelAt(k)) = L}
                 IN  /\ Cardinality(at) = Pow(n, L)
                     /\ \A k1, k2 \in at : k1 < k2 => LexLess(LabelAt(k1), LabelAt(k2))
            /\ \A k \in 1..N : \A t \in 1..Len(tlds) :
                 \E c \in 1..total :
                     ExpectedCandidate(c) = LabelAt(k) \o << "." >> \o tlds[t]
            /\ total = SumPow(n, CHOOSE lo \in LengthRange : \A L \in LengthRange : lo <= L,
                                 CHOOSE hi \in LengthRange : \A L \in LengthRange : hi >= L)
                         * Len(tlds)
            /\ \A c1, c2 \in 1..total :
                 c1 # c2 => ExpectedCandidate(c1) # ExpectedCandidate(c2)

\* dns_check.py has generated the labels of one and two letters over a, b.
C7_Witness ==
    /\ app = "dns" /\ JustGenerated
    /\ Len(chars) = 2
    /\ Len(possible_domains) = 6
    /\ possible_domains[3] = << "a", "a" >>

\* A configuration the specification calls invalid.
InvalidConfig ==
    \/ chars = << >>
    \/ LengthRange = {}
    \/ tlds = << >>
    \/ \E t \in 1..Len(tlds) : tlds[t] = << >>

\* C8: a run started with an invalid configuration fails before any lookup:
\* it never sends a request and never completes as if nothing were wrong.
C8_InvalidConfigFailsFast ==
    (app # "call" /\ InvalidConfig) => (sent = << >> /\ pc # "done")

\* The list a completed scan shows, and how it shows a domain.
View ==
    IF app = "whois" THEN [k \in 1..Len(df_available) |-> df_available[k].Domain]
    ELSE IF app = "rdap" THEN results_available
    ELSE printed

Shown(d) ==
    IF app = "whois"
      THEN << "[" >> \o d \o << "]", "(", "h", "t", "t", "p", "s", ":", "/", "/" >>
             \o d \o << ")" >>
    ELSE d

\* C9: when a scan completes, the list shown holds exactly the candidates
\* whose verdict is Available, each once and in generation order.
C9_AvailableView ==
    pc = "done" =>
        LET avail == {k \in 1..Len(calls) : calls[k].Available}
            nth(j) == CHOOSE k \in avail : Cardinality({m \in avail : m < k}) = j - 1
        IN  /\ Len(View) = Cardinality(avail)
            /\ \A j \in 1..Len(View) : View[j] = Shown(calls[nth(j)].Domain)
            /\ app = "whois" =>
                 \A j \in 1..Len(df_available) : df_available[j].Status = "Verified"

\* A completed RDAP scan of two candidates, the first answered 404 and shown,
\* the second answered 200.
C9_Witness ==
    /\ app = "rdap" /\ pc = "done"
    /\ Len(calls) = 2
    /\ calls[1].Available /\ ~calls[2].Available
    /\ results_available = << calls[1].Domain >>
    /\ last.up = [kind |-> "status", code |-> 200]

=============================================================================
